---- MODULE Spec2Model ----
(***************************************************************************)
(* Verification model of the hudddle backend core:                         *)
(*   (a) the in-memory WebSocketManager (app_src/manager.py) driven by the  *)
(*       websocket endpoint (app_src/main.py), and                          *)
(*   (b) the session finalization job (app_src/arq_tasks.py) with its three *)
(*       stages (app_src/workroom/service.py).                              *)
(* Tasks are asyncio coroutines: a step of the model runs one task from one *)
(* suspension point to the next.                                            *)
(* Assumptions: outside SpecRoom a broadcast's sends are one step (the     *)
(* lock it holds is not seen held by others, except by a disconnect that    *)
(* never returns); SpecRoom follows a broadcast send by send; a             *)
(* direct reply to a CONNECTED websocket succeeds; one worker executes the  *)
(* queued jobs one at a time; the queue hands the function the _job_try it  *)
(* was enqueued with; scores are integers.                                  *)
(***************************************************************************)
EXTENDS Integers, Sequences, FiniteSets, TLC

\* ------------------------------------------------------------------------
\* Universe
\* ------------------------------------------------------------------------
Rooms == {"r1", "r2"}
Users == {"u1", "u2", "u3"}
\* Endpoint invocations (one websocket each).  Connections 1 and 3 belong to
\* the same user: 3 supersedes 1 when both register.
Conns == {1, 2, 3}
\* the invocations that run under Spec: one per user
TwoUsers == {1, 2}
\* every endpoint invocation of the model: 4 is the third user's, 5 is the
\* second user's websocket to the second room
Endpoints == {1, 2, 3, 4, 5}
\* three users in one room
ThreeUsers == {1, 2, 4}
\* one user in two rooms
TwoRooms == {2, 5}
NoConn == 0
ConnRoom(c) == IF c = 5 THEN "r2" ELSE "r1"
ConnUser(c) == IF c \in {2, 5} THEN "u2" ELSE IF c = 4 THEN "u3" ELSE "u1"

\* the default of the constructor argument max_connections
DEFAULT_MAX_CONNECTIONS == 50
\* a small configured max_connections, so that a full room is reachable
SmallMaxConnections == 2
\* the literal 30 of handle_message's rate check
RATE_THRESHOLD == 30
\* the literal 2000 of handle_chat_message's length check
MAX_CONTENT == 2000

\* Bounds of the model
MaxMsgs == 1          \* capacity of the message store
MaxInbound == 2       \* inbound messages per user, room and window (Spec)
MaxInboundRate == 32  \* the same under SpecRate
MaxInboundTabs == 1   \* the same under SpecTabs
MaxInboundRoom == 1   \* the same under SpecRoom
MaxInboundRooms == 1  \* the same under SpecRooms

\* the literal 10 of handle_chat_message's mentions check
MAX_MENTIONS == 10

\* The payload of a chat message.  The content string is abstracted to its
\* stripped length (core) and the amount of surrounding whitespace (pad):
\* len(s) = core + pad and len(s.strip()) = core.  mentions is the length of
\* data['mentions']; badAttachment says that some attachment lacks one of
\* name, type, url.
Payload(core, pad, mentions, bad) ==
    [core |-> core, pad |-> pad, mentions |-> mentions, badAttachment |-> bad]
Contents ==
    { Payload(0, 0, 0, FALSE),
      Payload(MAX_CONTENT, 0, 0, FALSE), Payload(MAX_CONTENT, 1, 0, FALSE),
      Payload(MAX_CONTENT + 1, 0, 0, FALSE),
      Payload(MAX_CONTENT, 0, MAX_MENTIONS + 1, FALSE),
      Payload(MAX_CONTENT, 0, 0, TRUE) }
RawLen(s) == s.core + s.pad
StripLen(s) == s.core
NoContent == Payload(0, 0, 0, FALSE)
OkContent == Payload(MAX_CONTENT, 0, 0, FALSE)


VARIABLES
    MAX_CONNECTIONS_PER_ROOM, \* the manager's configured room capacity
    active_connections,  \* [Rooms -> [Users -> Endpoints \cup {NoConn}]]
    presence_data,       \* [Rooms -> [Users -> {"absent","online","offline"}]]
    message_rates,       \* [Users -> [Rooms -> Nat]]
    window_expired,      \* utcnow() - last_reset > 60 s
    connLock,            \* holder of _connections_lock across a suspension
    rateLock,            \* holder of _rate_lock across a suspension
    user_data_cache,     \* users with a cached profile
    client_state,        \* [Endpoints -> {"CONNECTED","DISCONNECTED"}]
    pc,                  \* [Endpoints -> position of the endpoint task]
    messages,            \* the message store: Seq of documents, id = index
    last,                \* what the last step handled and sent
    dispatched           \* history: messages dispatched since the last reset

wsVars == <<MAX_CONNECTIONS_PER_ROOM, active_connections, presence_data, message_rates, window_expired,
            connLock, rateLock, user_data_cache, client_state, pc, messages,
            last, dispatched>>

\* the finalization job's tables and queue
VARIABLES
    members,              \* WorkroomMemberLink rows of the room
    user_kpi_summary,     \* committed rows, Seq of [user_id, alignment]
    leaderboards,         \* committed rows, Seq of [user_id, score, rank]
    tx_leaderboards,      \* the leaderboard rows as the job's session sees them
    workroom_kpi_summary, \* committed rows, Seq of [average]
    live_session,         \* [is_active, ended]
    queue,                \* jobs in the queue: room, session, actor, try, delay
    exec,                 \* the job execution under way
    requests,             \* session-end requests so far
    lastJob,              \* history: what the last pipeline step did
    runs                  \* history: the last finished execution since a membership change

jobVars == <<members, user_kpi_summary, leaderboards, tx_leaderboards,
             workroom_kpi_summary, live_session, queue, exec, requests,
             lastJob, runs>>

\* broadcasts followed send by send
VARIABLES
    bcast    \* [next, cur, waiting, inbox]: the next issue number, the batch
             \* that holds _connections_lock, the calls waiting for the lock
             \* in arrival order, and what each websocket received

vars == <<wsVars, jobVars, bcast>>

\* ------------------------------------------------------------------------
\* Helpers of the manager
\* ------------------------------------------------------------------------
Step(op, c, typ, content, mid, out) ==
    [op |-> op, conn |-> c, typ |-> typ, content |-> content, mid |-> mid, out |-> out]

\* users registered in a room
Registered(r) == {u \in Users : active_connections[r][u] # NoConn}

\* safe_send: delivers only to a websocket whose client_state is CONNECTED
safe_send(ws, kind) ==
    IF client_state[ws] = "CONNECTED" THEN << <<ws, kind>> >> ELSE << >>

\* a cleanup that leaves the user's entry in place
KeepUser(f, r, u, none) == f

\* the except-cleanup of connect and the finally-cleanup of disconnect
PopUser(f, r, u, none) == [f EXCEPT ![r][u] = none]

SetToSeq(S) ==
    LET RECURSIVE build(_)
        build(T) == IF T = {} THEN << >>
                    ELSE LET x == CHOOSE y \in T : \A z \in T : y <= z
                         IN <<x>> \o build(T \ {x})
    IN build(S)

\* broadcast with an exclude list: the websockets of the room's registered,
\* non-excluded users whose client_state is CONNECTED
Recipients(r, exclude) ==
    {active_connections[r][u] : u \in {v \in Registered(r) \ exclude :
        client_state[active_connections[r][v]] = "CONNECTED"}}

\* the registry after a broadcast in which the sends to `failed` raised
Pruned(r, failed) ==
    [active_connections EXCEPT ![r] =
        [u \in Users |-> IF active_connections[r][u] \in failed
                         THEN NoConn ELSE active_connections[r][u]]]

\* lines 195-202: the envelopes of a batch; a send that raises is caught
\* inside the loop and the loop goes on
Delivered(rcpts, failed, kind) ==
    LET s == SetToSeq(rcpts \ failed)
    IN [i \in 1..Len(s) |-> <<s[i], kind>>]

\* broadcast called without an exclude list: `user_id in exclude` raises
\* TypeError for the first registered user, before any send
BroadcastNoExcludeRaises(r) == Registered(r) # {}

\* ------------------------------------------------------------------------
\* WebSocketManager.__init__
\* ------------------------------------------------------------------------
InitManager ==
    /\ MAX_CONNECTIONS_PER_ROOM \in {SmallMaxConnections, DEFAULT_MAX_CONNECTIONS}
    /\ active_connections = [r \in Rooms |-> [u \in Users |-> NoConn]]
    /\ presence_data = [r \in Rooms |-> [u \in Users |-> "absent"]]
    /\ message_rates = [u \in Users |-> [r \in Rooms |-> 0]]
    /\ window_expired = FALSE
    /\ connLock = NoConn
    /\ rateLock = NoConn
    /\ user_data_cache = {}
    /\ client_state = [c \in Endpoints |-> "CONNECTED"]
    /\ pc = [c \in Endpoints |-> "idle"]
    /\ messages = << >>
    /\ last = Step("init", NoConn, "-", NoContent, 0, << >>)
    /\ dispatched = [u \in Users |-> [r \in Rooms |-> 0]]

\* ------------------------------------------------------------------------
\* workroom_websocket_endpoint up to the call of manager.connect
\* ------------------------------------------------------------------------
\* accept, authenticate, check user.workrooms.  An unauthorized user is
\* closed and the finally block still runs manager.disconnect.
EndpointStart(c) ==
    /\ UNCHANGED <<jobVars, bcast>>
    /\ pc[c] = "idle"
    /\ \E authorized \in BOOLEAN :
        /\ pc' = [pc EXCEPT ![c] = IF authorized THEN "connect" ELSE "disc"]
        /\ last' = Step("accept", c, "-", NoContent, 0, << >>)
    /\ UNCHANGED <<MAX_CONNECTIONS_PER_ROOM, active_connections, presence_data,
                   message_rates, window_expired, connLock, rateLock,
                   user_data_cache, client_state, messages, dispatched>>

\* ------------------------------------------------------------------------
\* WebSocketManager.connect
\* ------------------------------------------------------------------------
\* the room is full when the registry, the new entry included, has reached
\* the configured maximum
RoomFull(reg, r) ==
    Cardinality({u \in Users : reg[r][u] # NoConn}) >= MAX_CONNECTIONS_PER_ROOM

\* lines 61-75: register under the lock, then the capacity check.  The reply
\* of the capacity branch is the set literal {...}; send_json raises TypeError
\* on it, which is no RuntimeError, so the outer handler rolls back and
\* re-raises; the endpoint answers with an error envelope and its finally
\* block disconnects.
ConnectRegister(c) ==
    /\ UNCHANGED <<jobVars, bcast>>
    /\ LET r == ConnRoom(c)
           u == ConnUser(c)
           reg == [active_connections EXCEPT ![r][u] = c]
       IN /\ pc[c] = "connect"
          /\ connLock = NoConn
          /\ IF client_state[c] = "DISCONNECTED"
             THEN /\ pc' = [pc EXCEPT ![c] = "disc"]
                  /\ last' = Step("connect_return", c, "-", NoContent, 0, << >>)
                  /\ UNCHANGED <<active_connections, presence_data>>
             ELSE IF RoomFull(reg, r)
             THEN /\ active_connections' = PopUser(reg, r, u, NoConn)
                  /\ presence_data' = PopUser(presence_data, r, u, "absent")
                  /\ pc' = [pc EXCEPT ![c] = "disc"]
                  /\ last' = Step("connect_full", c, "-", NoContent, 0,
                                  safe_send(c, "error"))
             ELSE /\ active_connections' = reg
                  /\ pc' = [pc EXCEPT ![c] = "verify"]
                  /\ last' = Step("connect_register", c, "-", NoContent, 0, << >>)
                  /\ UNCHANGED presence_data
          /\ UNCHANGED <<MAX_CONNECTIONS_PER_ROOM, message_rates, window_expired,
                         connLock, rateLock, user_data_cache, client_state,
                         messages, dispatched>>

\* lines 77-108: the membership query, the profile lookup, the session
\* snapshot and the presence entry.  A failing query raises into the rollback.
ConnectVerify(c) ==
    /\ UNCHANGED <<jobVars, bcast>>
    /\ LET r == ConnRoom(c)
           u == ConnUser(c)
       IN /\ pc[c] = "verify"
          /\ \E outcome \in {"member", "denied", "dberror"} :
               CASE outcome = "dberror" ->
                       /\ active_connections' = PopUser(active_connections, r, u, NoConn)
                       /\ presence_data' = PopUser(presence_data, r, u, "absent")
                       /\ pc' = [pc EXCEPT ![c] = "disc"]
                       /\ last' = Step("connect_error", c, "-", NoContent, 0,
                                       safe_send(c, "error"))
                       /\ UNCHANGED user_data_cache
                 [] outcome = "denied" ->
                       /\ pc' = [pc EXCEPT ![c] = "loop"]
                       /\ last' = Step("connect_denied", c, "-", NoContent, 0,
                                       safe_send(c, "access_denied")
                                       \o safe_send(c, "connection_established"))
                       /\ UNCHANGED <<active_connections, presence_data, user_data_cache>>
                 [] outcome = "member" ->
                       /\ user_data_cache' = user_data_cache \cup {u}
                       /\ presence_data' = [presence_data EXCEPT ![r][u] = "online"]
                       /\ pc' = [pc EXCEPT ![c] = "join"]
                       /\ last' = Step("connect_presence", c, "-", NoContent, 0,
                                       safe_send(c, "session_state"))
                       /\ UNCHANGED active_connections
          /\ UNCHANGED <<MAX_CONNECTIONS_PER_ROOM, message_rates, window_expired,
                         connLock, rateLock, client_state, messages, dispatched>>

\* lines 111-117: broadcast of the join event, the new user excluded
ConnectJoin(c) ==
    /\ UNCHANGED <<jobVars, bcast>>
    /\ LET r == ConnRoom(c)
           u == ConnUser(c)
       IN /\ pc[c] = "join"
          /\ connLock = NoConn
          /\ \E failed \in SUBSET Recipients(r, {u}) :
               /\ active_connections' = Pruned(r, failed)
               /\ last' = Step("connect_join", c, "-", NoContent, 0,
                               Delivered(Recipients(r, {u}), failed, "presence_join"))
          /\ pc' = [pc EXCEPT ![c] = "pupd"]
          /\ UNCHANGED <<MAX_CONNECTIONS_PER_ROOM, presence_data, message_rates,
                         window_expired, connLock, rateLock, user_data_cache,
                         client_state, messages, dispatched>>

\* lines 119-130: broadcast_presence_update calls broadcast without an
\* exclude list; the TypeError reaches connect's handler, which rolls the
\* user's entries back and re-raises.
ConnectPresenceUpdate(c) ==
    /\ UNCHANGED <<jobVars, bcast>>
    /\ LET r == ConnRoom(c)
           u == ConnUser(c)
       IN /\ pc[c] = "pupd"
          /\ connLock = NoConn
          /\ IF BroadcastNoExcludeRaises(r)
             THEN /\ active_connections' = PopUser(active_connections, r, u, NoConn)
                  /\ presence_data' = PopUser(presence_data, r, u, "absent")
                  /\ pc' = [pc EXCEPT ![c] = "disc"]
                  /\ last' = Step("connect_error", c, "-", NoContent, 0,
                                  safe_send(c, "error"))
             ELSE /\ pc' = [pc EXCEPT ![c] = "loop"]
                  /\ last' = Step("connect_ok", c, "-", NoContent, 0,
                                  safe_send(c, "connection_established"))
                  /\ UNCHANGED <<active_connections, presence_data>>
          /\ UNCHANGED <<MAX_CONNECTIONS_PER_ROOM, message_rates, window_expired,
                         connLock, rateLock, user_data_cache, client_state,
                         messages, dispatched>>

\* ------------------------------------------------------------------------
\* WebSocketManager.disconnect
\* ------------------------------------------------------------------------
\* The registry entry of the user is deleted under the lock.  With the
\* profile at hand, broadcast is called while the lock is still held and
\* waits for it forever.  If the profile lookup raises, the lock is released,
\* presence goes offline, the presence broadcast raises or finds the room
\* empty, and the finally block pops both entries.
DisconnectBody(c) ==
    LET r == ConnRoom(c)
        u == ConnUser(c)
    IN /\ \E profile \in BOOLEAN :
            /\ (u \in user_data_cache) => profile
            /\ IF profile
               THEN /\ active_connections' = PopUser(active_connections, r, u, NoConn)
                    /\ user_data_cache' = user_data_cache \cup {u}
                    /\ connLock' = c
                    /\ pc' = [pc EXCEPT ![c] = "stuck"]
                    /\ last' = Step("disconnect_wait", c, "-", NoContent, 0, << >>)
                    /\ UNCHANGED presence_data
               ELSE /\ active_connections' = PopUser(active_connections, r, u, NoConn)
                    /\ presence_data' = PopUser(presence_data, r, u, "absent")
                    /\ pc' = [pc EXCEPT ![c] = "closed"]
                    /\ last' = Step("disconnect_done", c, "-", NoContent, 0, << >>)
                    /\ UNCHANGED <<user_data_cache, connLock>>
       /\ UNCHANGED <<MAX_CONNECTIONS_PER_ROOM, message_rates, window_expired,
                      rateLock, messages, dispatched>>

\* the finally block of the endpoint, reached after a reply was awaited
Disconnect(c) ==
    /\ UNCHANGED <<jobVars, bcast>>
    /\ pc[c] = "disc"
    /\ connLock = NoConn
    /\ DisconnectBody(c)
    /\ UNCHANGED client_state

\* ------------------------------------------------------------------------
\* The message loop of the endpoint and WebSocketManager.handle_message
\* ------------------------------------------------------------------------
\* receive_json reports the client's disconnect: client_state changes, the
\* loop is left and the finally block calls disconnect.  Nothing is awaited
\* on the way when _connections_lock is free; the task waits when it is held.
LoopDisconnect(c) ==
    /\ UNCHANGED <<jobVars, bcast>>
    /\ pc[c] = "loop"
    /\ client_state' = [client_state EXCEPT ![c] = "DISCONNECTED"]
    /\ IF connLock = NoConn
       THEN DisconnectBody(c)
       ELSE /\ pc' = [pc EXCEPT ![c] = "disc"]
            /\ last' = Step("client_disconnect", c, "-", NoContent, 0, << >>)
            /\ UNCHANGED <<MAX_CONNECTIONS_PER_ROOM, active_connections, presence_data,
                           message_rates, window_expired, connLock, rateLock,
                           user_data_cache, messages, dispatched>>

\* 60 seconds pass since last_reset
Tick ==
    /\ UNCHANGED <<jobVars, bcast>>
    /\ ~window_expired
    /\ window_expired' = TRUE
    /\ last' = Step("tick", NoConn, "-", NoContent, 0, << >>)
    /\ UNCHANGED <<MAX_CONNECTIONS_PER_ROOM, active_connections, presence_data,
                   message_rates, connLock, rateLock, user_data_cache,
                   client_state, pc, messages, dispatched>>

Zeros == [u \in Users |-> [r \in Rooms |-> 0]]

\* message_rates after the reset check of lines 272-274
RatesNow == IF window_expired THEN Zeros ELSE message_rates
DispatchedNow == IF window_expired THEN Zeros ELSE dispatched

\* line 276: the rate check
RateLimited(count) == count > RATE_THRESHOLD

\* lines 280-294: the message is counted and dispatched
Accept(c) ==
    /\ ~RateLimited(RatesNow[ConnUser(c)][ConnRoom(c)])
    /\ message_rates' = [RatesNow EXCEPT ![ConnUser(c)][ConnRoom(c)] = @ + 1]
    /\ dispatched' = [DispatchedNow EXCEPT ![ConnUser(c)][ConnRoom(c)] = @ + 1]
    /\ window_expired' = FALSE

\* the handler needs _connections_lock while a stuck disconnect holds it:
\* the task waits inside handle_message, holding _rate_lock
Blocks(c) ==
    /\ pc' = [pc EXCEPT ![c] = "h_blocked"]
    /\ rateLock' = c

\* the endpoint's `except Exception` of the loop: error envelope, then break
Unexpected(c) == safe_send(c, "error_unexpected")

\* the reply `safe_send(self.active_connections[room][user], ...)`: KeyError
\* when the user is not registered, answered by the endpoint's KeyError branch
ReplyRegistered(c, kind) ==
    LET ws == active_connections[ConnRoom(c)][ConnUser(c)]
    IN IF ws = NoConn THEN safe_send(c, "error_missing_field")
       ELSE safe_send(ws, kind)

\* the reply `ws = active_connections[room].get(sender); if ws: safe_send(...)`
ReplyIfRegistered(c, kind) ==
    LET ws == active_connections[ConnRoom(c)][ConnUser(c)]
    IN IF ws = NoConn THEN << >> ELSE safe_send(ws, kind)

\* lines 276-278: over the limit.  The reply is the set literal {...}:
\* send_json raises TypeError when the registered websocket is CONNECTED.
HandleRateLimited(c) ==
    /\ UNCHANGED <<jobVars, bcast>>
    /\ LET r == ConnRoom(c)
           u == ConnUser(c)
           ws == active_connections[r][u]
       IN /\ pc[c] = "loop"
          /\ rateLock = NoConn
          /\ RateLimited(RatesNow[u][r])
          /\ IF ws # NoConn /\ client_state[ws] = "CONNECTED"
             THEN /\ pc' = [pc EXCEPT ![c] = "disc"]
                  /\ last' = Step("rate_limited", c, "-", NoContent, 0, Unexpected(c))
             ELSE /\ pc' = pc
                  /\ last' = Step("rate_limited", c, "-", NoContent, 0,
                                  IF ws = NoConn THEN safe_send(c, "error_missing_field")
                                  ELSE << >>)
          /\ message_rates' = RatesNow
          /\ dispatched' = DispatchedNow
          /\ window_expired' = FALSE
          /\ UNCHANGED <<MAX_CONNECTIONS_PER_ROOM, active_connections, presence_data,
                         connLock, rateLock, user_data_cache, client_state, messages>>

\* the checks of handle_chat_message (lines 353-393): "empty", "too_long"
\* and "attachment" (both answered only when the sender is registered),
\* "mentions" or "ok"
ChatVerdict(content, registered) ==
    IF StripLen(content) = 0 THEN "empty"
    ELSE IF StripLen(content) > MAX_CONTENT /\ registered THEN "too_long"
    ELSE IF content.mentions > MAX_MENTIONS THEN "mentions"
    ELSE IF content.badAttachment /\ registered THEN "attachment"
    ELSE "ok"

\* the document of lines 400-412: the content stored is data['content']
MessageDoc(r, u, content) ==
    [workroom_id |-> r, sender_id |-> u, content |-> content,
     edited |-> FALSE, deleted |-> FALSE]

\* handle_chat_message.  The empty, the too-long and the attachment check
\* look the sender's websocket up under _connections_lock; a too-long message
\* or an invalid attachment whose sender is not registered falls through to
\* the insert.  The reply of the mentions check is safe_send(..., {...}): the
\* Ellipsis has no client_state, AttributeError reaches the endpoint.
HandleChat(c, content, maxIn) ==
    /\ UNCHANGED <<jobVars, bcast>>
    /\ LET r == ConnRoom(c)
           u == ConnUser(c)
           verdict == ChatVerdict(content, active_connections[r][u] # NoConn)
           early == \/ StripLen(content) = 0
                    \/ StripLen(content) > MAX_CONTENT
                    \/ content.mentions <= MAX_MENTIONS /\ content.badAttachment
       IN /\ pc[c] = "loop"
          /\ rateLock = NoConn
          /\ RatesNow[u][r] < maxIn
          /\ Accept(c)
          /\ IF connLock # NoConn /\ early
             THEN /\ Blocks(c)
                  /\ last' = Step("chat_blocked", c, "chat_message", content, 0, << >>)
                  /\ UNCHANGED <<messages, user_data_cache>>
             ELSE IF verdict = "mentions"
             THEN /\ pc' = [pc EXCEPT ![c] = "disc"]
                  /\ last' = Step("chat_failed", c, "chat_message", content, 0,
                                  Unexpected(c))
                  /\ UNCHANGED <<messages, user_data_cache, rateLock>>
             ELSE IF verdict # "ok"
             THEN /\ last' = Step("chat_rejected", c, "chat_message", content, 0,
                                  ReplyIfRegistered(c, "error"))
                  /\ UNCHANGED <<messages, user_data_cache, pc, rateLock>>
             ELSE \E stored \in BOOLEAN :   \* FALSE: the profile lookup or the insert raises
                  /\ stored => Len(messages) < MaxMsgs
                  /\ messages' = IF stored THEN Append(messages, MessageDoc(r, u, content))
                                 ELSE messages
                  /\ user_data_cache' = IF stored THEN user_data_cache \cup {u}
                                        ELSE user_data_cache
                  /\ IF connLock # NoConn
                     THEN /\ Blocks(c)
                          /\ last' = Step("chat_blocked", c, "chat_message", content,
                                          IF stored THEN Len(messages) + 1 ELSE 0, << >>)
                     ELSE /\ last' = Step("chat", c, "chat_message", content,
                                          IF stored THEN Len(messages) + 1 ELSE 0,
                                          IF stored /\ ~BroadcastNoExcludeRaises(r)
                                          THEN << >>
                                          ELSE ReplyIfRegistered(c, "error"))
                          /\ UNCHANGED <<pc, rateLock>>
          /\ UNCHANGED <<MAX_CONNECTIONS_PER_ROOM, active_connections, presence_data,
                         connLock, client_state>>

\* `not message or message['sender_id'] != user_id` of the edit and delete
\* handlers: TRUE when the request is refused
NotOwner(mid, u) ==
    \/ mid > Len(messages)
    \/ messages[mid].sender_id # u

\* NoSQLClient.edit_message and delete_message: update_one by id
EditDoc(mid, content) ==
    [messages EXCEPT ![mid].content = content, ![mid].edited = TRUE]
DeleteDoc(mid) ==
    [messages EXCEPT ![mid].deleted = TRUE]

\* handle_edit_message and handle_delete_message
HandleModify(c, typ, mid, content, maxIn) ==
    /\ UNCHANGED <<jobVars, bcast>>
    /\ LET r == ConnRoom(c)
           u == ConnUser(c)
       IN /\ pc[c] = "loop"
          /\ rateLock = NoConn
          /\ RatesNow[u][r] < maxIn
          /\ Accept(c)
          /\ \E storeUp \in BOOLEAN :   \* FALSE: get_message raises
             IF ~storeUp
             THEN /\ pc' = [pc EXCEPT ![c] = "disc"]
                  /\ last' = Step("modify_error", c, typ, content, mid, Unexpected(c))
                  /\ UNCHANGED <<messages, user_data_cache, rateLock>>
             ELSE IF NotOwner(mid, u)
             THEN /\ last' = Step("modify_refused", c, typ, content, mid,
                                  ReplyRegistered(c, "error"))
                  /\ UNCHANGED <<messages, user_data_cache, pc, rateLock>>
             ELSE /\ messages' = IF typ = "edit_message" THEN EditDoc(mid, content)
                                 ELSE DeleteDoc(mid)
                  /\ user_data_cache' = user_data_cache \cup {u}
                  /\ IF connLock # NoConn
                     THEN /\ Blocks(c)
                          /\ last' = Step("modify_blocked", c, typ, content, mid, << >>)
                     ELSE IF BroadcastNoExcludeRaises(r)
                     THEN /\ pc' = [pc EXCEPT ![c] = "disc"]
                          /\ last' = Step("modify", c, typ, content, mid, Unexpected(c))
                          /\ UNCHANGED rateLock
                     ELSE /\ last' = Step("modify", c, typ, content, mid, << >>)
                          /\ UNCHANGED <<pc, rateLock>>
          /\ UNCHANGED <<MAX_CONNECTIONS_PER_ROOM, active_connections, presence_data,
                         connLock, client_state>>

HandleEdit(c, mid, content, maxIn) == HandleModify(c, "edit_message", mid, content, maxIn)
HandleDelete(c, mid, maxIn) == HandleModify(c, "delete_message", mid, NoContent, maxIn)

\* handle_typing_indicator: the one broadcast with an exclude list
HandleTyping(c, maxIn) ==
    /\ UNCHANGED <<jobVars, bcast>>
    /\ LET r == ConnRoom(c)
           u == ConnUser(c)
       IN /\ pc[c] = "loop"
          /\ rateLock = NoConn
          /\ RatesNow[u][r] < maxIn
          /\ Accept(c)
          /\ user_data_cache' = user_data_cache \cup {u}
          /\ IF connLock # NoConn
             THEN /\ Blocks(c)
                  /\ last' = Step("typing_blocked", c, "user_typing", NoContent, 0, << >>)
                  /\ UNCHANGED active_connections
             ELSE \E failed \in SUBSET Recipients(r, {u}) :
                  /\ active_connections' = Pruned(r, failed)
                  /\ last' = Step("typing", c, "user_typing", NoContent, 0,
                                  Delivered(Recipients(r, {u}), failed, "user_typing"))
                  /\ UNCHANGED <<pc, rateLock>>
          /\ UNCHANGED <<MAX_CONNECTIONS_PER_ROOM, presence_data, connLock,
                         client_state, messages>>

\* the coroutines NoSQLClient defines
NoSQLClientMethods ==
    {"insert_message", "get_recent_messages", "edit_message", "delete_message",
     "search_messages", "get_message", "get_message_history", "add_reaction",
     "remove_reaction"}

\* handle_read_receipt: self.nosql.mark_as_read is no attribute of
\* NoSQLClient, so line 498 raises AttributeError before anything is stored
\* or sent; were it one, line 499 calls get_user_data without its session
\* argument and raises TypeError.  Either error leaves handle_message and
\* reaches the endpoint's `except Exception`: error envelope, then break.
HandleReadReceipt(c, mid, maxIn) ==
    /\ UNCHANGED <<jobVars, bcast>>
    /\ LET r == ConnRoom(c)
           u == ConnUser(c)
       IN /\ pc[c] = "loop"
          /\ rateLock = NoConn
          /\ RatesNow[u][r] < maxIn
          /\ Accept(c)
          /\ pc' = [pc EXCEPT ![c] = "disc"]
          /\ last' = Step(IF "mark_as_read" \in NoSQLClientMethods
                            THEN "read_receipt_no_session"
                            ELSE "read_receipt_no_method",
                          c, "read_receipt", NoContent, mid, Unexpected(c))
          /\ UNCHANGED <<MAX_CONNECTIONS_PER_ROOM, active_connections, presence_data,
                         connLock, rateLock, user_data_cache, client_state, messages>>

\* ------------------------------------------------------------------------
\* WebSocketManager.broadcast with an exclude list, send by send
\* ------------------------------------------------------------------------
\* The join event of connect (lines 111-117) and the typing indicator (lines
\* 439-449) are the broadcasts that pass an exclude list.  Here the batch is
\* followed across its awaits: the call, the acquisition of
\* _connections_lock, one step per recipient, the release.  Tasks that need
\* no lock (the failure of another connect's queries and its cleanup, a
\* client closing its websocket) run in between.
MaxBroadcasts == 3   \* broadcast calls issued

NoBatch ==
    [owner |-> NoConn, kind |-> "-", seq |-> 0,
     snap |-> [v \in Users |-> NoConn], todo |-> {}]

InitBroadcast ==
    bcast = [next |-> 1, cur |-> NoBatch, waiting |-> << >>,
             inbox |-> [c \in Endpoints |-> << >>]]

\* the call that has waited longest is the last one in the queue
LastWaiter(waiting) == waiting[Len(waiting)]

\* asyncio.Lock wakes its waiters in the order in which they began to wait
NextWaiter(waiting) == Head(waiting)

\* line 195: list(self.active_connections[workroom_id].items()) without the
\* excluded user, taken once the lock is held
Snapshot(owner, kind, seq) ==
    [owner |-> owner, kind |-> kind, seq |-> seq,
     snap |-> [v \in Users |-> IF v = ConnUser(owner) THEN NoConn
                               ELSE active_connections[ConnRoom(owner)][v]],
     todo |-> Registered(ConnRoom(owner)) \ {ConnUser(owner)}]

\* the lock is released: it passes to the next waiting call, if any
Release ==
    IF bcast.waiting = << >>
    THEN /\ connLock' = NoConn
         /\ bcast' = [bcast EXCEPT !.cur = NoBatch]
    ELSE LET w == NextWaiter(bcast.waiting)
         IN /\ connLock' = w.conn
            /\ bcast' = [bcast EXCEPT
                  !.cur = [NoBatch EXCEPT !.owner = w.conn, !.kind = w.kind,
                                          !.seq = w.seq],
                  !.waiting = SelectSeq(bcast.waiting, LAMBDA x : x # w)]

\* self.broadcast(..., exclude=[user_id]) is called: by connect for the join
\* event, by handle_typing_indicator (inside handle_message, which holds
\* _rate_lock) for the typing indicator.  The call takes the lock if it is
\* free and waits for it otherwise.
BroadcastCall(c) ==
    /\ UNCHANGED jobVars
    /\ LET r == ConnRoom(c)
           u == ConnUser(c)
           kind == IF pc[c] = "join" THEN "presence_join" ELSE "user_typing"
           seq == bcast.next
       IN /\ pc[c] \in {"join", "loop"}
          /\ seq <= MaxBroadcasts
          /\ IF pc[c] = "loop"
             THEN /\ rateLock = NoConn
                  /\ RatesNow[u][r] < MaxInboundRoom
                  /\ Accept(c)
                  /\ rateLock' = c
                  /\ user_data_cache' = user_data_cache \cup {u}
             ELSE UNCHANGED <<message_rates, dispatched, window_expired, rateLock,
                              user_data_cache>>
          /\ IF connLock = NoConn
             THEN /\ connLock' = c
                  /\ bcast' = [bcast EXCEPT !.next = seq + 1,
                                            !.cur = Snapshot(c, kind, seq)]
                  /\ pc' = [pc EXCEPT ![c] = "sending"]
             ELSE /\ bcast' = [bcast EXCEPT
                        !.next = seq + 1,
                        !.waiting = Append(@, [conn |-> c, kind |-> kind, seq |-> seq])]
                  /\ pc' = [pc EXCEPT ![c] = "lock_wait"]
                  /\ UNCHANGED connLock
          /\ last' = Step("broadcast_call", c, "-", NoContent, 0, << >>)
          /\ UNCHANGED <<MAX_CONNECTIONS_PER_ROOM, active_connections, presence_data,
                         client_state, messages>>

\* a waiting call is resumed holding the lock and lists the room's entries
BroadcastAcquire(c) ==
    /\ UNCHANGED jobVars
    /\ pc[c] = "lock_wait"
    /\ connLock = c
    /\ bcast' = [bcast EXCEPT !.cur = Snapshot(c, bcast.cur.kind, bcast.cur.seq)]
    /\ pc' = [pc EXCEPT ![c] = "sending"]
    /\ last' = Step("broadcast_acquire", c, "-", NoContent, 0, << >>)
    /\ UNCHANGED <<MAX_CONNECTIONS_PER_ROOM, active_connections, presence_data,
                   message_rates, window_expired, connLock, rateLock,
                   user_data_cache, client_state, messages, dispatched>>

\* lines 196-202 for one entry of the list.  A websocket that is not
\* CONNECTED is passed over.  The send delivers, or raises the RuntimeError
\* about a close message that safe_send swallows, or raises something else:
\* then the handler deletes the user's registry entry, and if that entry is
\* gone by now (the user's own connect failed meanwhile and cleaned up, lines
\* 123-129, which takes no lock) the del raises KeyError, which leaves the
\* loop and broadcast.  In connect the KeyError reaches the except block; in
\* the typing handler it reaches the endpoint's `except Exception`.
BroadcastSend(c) ==
    /\ UNCHANGED jobVars
    /\ pc[c] = "sending"
    /\ LET r == ConnRoom(c)
           u == ConnUser(c)
           b == bcast.cur
       IN \E v \in b.todo, outcome \in {"sent", "closing", "raised"} :
            LET ws == b.snap[v]
                rest == [b EXCEPT !.todo = @ \ {v}]
            IN /\ (client_state[ws] # "CONNECTED") => (outcome = "closing")
               /\ CASE outcome = "sent" ->
                         /\ bcast' = [bcast EXCEPT !.cur = rest,
                                                   !.inbox[ws] = Append(@, b.seq)]
                         /\ last' = Step("broadcast_send", c, "-", NoContent, 0,
                                         << <<ws, b.kind>> >>)
                         /\ UNCHANGED <<active_connections, presence_data, connLock,
                                        rateLock, pc>>
                    [] outcome = "closing" ->
                         /\ bcast' = [bcast EXCEPT !.cur = rest]
                         /\ last' = Step("broadcast_skip", c, "-", NoContent, 0, << >>)
                         /\ UNCHANGED <<active_connections, presence_data, connLock,
                                        rateLock, pc>>
                    [] outcome = "raised" /\ active_connections[r][v] # NoConn ->
                         /\ active_connections' = [active_connections EXCEPT ![r][v] = NoConn]
                         /\ bcast' = [bcast EXCEPT !.cur = rest]
                         /\ last' = Step("broadcast_prune", c, "-", NoContent, 0, << >>)
                         /\ UNCHANGED <<presence_data, connLock, rateLock, pc>>
                    [] outcome = "raised" /\ active_connections[r][v] = NoConn ->
                         /\ Release
                         /\ pc' = [pc EXCEPT ![c] = "disc"]
                         /\ IF b.kind = "presence_join"
                            THEN /\ active_connections' = PopUser(active_connections, r, u, NoConn)
                                 /\ presence_data' = PopUser(presence_data, r, u, "absent")
                                 /\ last' = Step("broadcast_abort", c, "-", NoContent, 0,
                                                 safe_send(c, "error"))
                                 /\ UNCHANGED rateLock
                            ELSE /\ rateLock' = NoConn
                                 /\ last' = Step("broadcast_abort", c, "-", NoContent, 0,
                                                 Unexpected(c))
                                 /\ UNCHANGED <<active_connections, presence_data>>
    /\ UNCHANGED <<MAX_CONNECTIONS_PER_ROOM, message_rates, window_expired,
                   user_data_cache, client_state, messages, dispatched>>

\* the list is exhausted: the lock is released and the caller goes on, connect
\* to its presence update, the typing handler back to the read loop
BroadcastEnd(c) ==
    /\ UNCHANGED jobVars
    /\ pc[c] = "sending"
    /\ bcast.cur.todo = {}
    /\ Release
    /\ pc' = [pc EXCEPT ![c] = IF bcast.cur.kind = "presence_join" THEN "pupd" ELSE "loop"]
    /\ rateLock' = IF bcast.cur.kind = "presence_join" THEN rateLock ELSE NoConn
    /\ last' = Step("broadcast_end", c, "-", NoContent, 0, << >>)
    /\ UNCHANGED <<MAX_CONNECTIONS_PER_ROOM, active_connections, presence_data,
                   message_rates, window_expired, user_data_cache, client_state,
                   messages, dispatched>>

\* ------------------------------------------------------------------------
\* The finalization pipeline: tables
\* ------------------------------------------------------------------------
\* the literal 3 of `if _job_try > 3` in process_workroom_end_session
RETRY_LIMIT == 3
\* _defer_by of the retry
RETRY_DEFER == 60
\* positional arguments of the job's call of calculate_workroom_kpi_overview,
\* and positional parameters the function declares
AGGREGATE_CALL_ARGS == 2
AGGREGATE_PARAMS == 3

MaxRequests == 1     \* session-end requests accepted by the trigger
MaxRequestsTrigger == 2  \* session-end requests made when the trigger is examined
Alignments == {0, 1} \* overall alignment values a summary can carry

UserOrder == <<"u1", "u2", "u3">>
None == "None"
\* User.first_name (nullable)
FirstName(u) == CASE u = "u1" -> "Bob" [] u = "u2" -> "amy" [] OTHER -> None
\* task, engagement and penalty part of a member's score
BaseScore(u) == CASE u = "u1" -> 1 [] u = "u2" -> 1 [] OTHER -> 0
\* position of username.lower() in string order
LowerKey(name) ==
    CASE name = "amy" -> 1 [] name = "Bob" -> 2 [] name = "Unnamed User" -> 3

SeqOf(S) == SelectSeq(UserOrder, LAMBDA u : u \in S)
NoJob == [workroom_id |-> None, session_id |-> None, user_id |-> None,
          job_try |-> 0, defer_by |-> 0]
Idle == [pc |-> "idle", job |-> NoJob,
         done |-> {}, alignment |-> -1, fallback |-> {}, seen |-> {}]
JobStep(op, stage, job, enq, perm) ==
    [op |-> op, stage |-> stage, job |-> job, enqueued |-> enq, permanent |-> perm]

\* create_workroom: one default leaderboard row per member, rank i + 1
DefaultLeaderboard(S) ==
    LET m == SeqOf(S)
    IN [i \in 1..Len(m) |->
          [user_id |-> m[i],
           score |-> IF 30 - (i - 1) * 3 > 2 THEN 30 - (i - 1) * 3 ELSE 2,
           rank |-> i]]

InitJob ==
    /\ members = {"u1", "u2"}
    /\ user_kpi_summary = << >>
    /\ leaderboards = DefaultLeaderboard(members)
    /\ tx_leaderboards = leaderboards
    /\ workroom_kpi_summary = << >>
    /\ live_session = [is_active |-> TRUE, ended |-> FALSE]
    /\ queue = << >>
    /\ exec = Idle
    /\ requests = 0
    /\ lastJob = JobStep("init", "-", NoJob, << >>, FALSE)
    /\ runs = << >>

\* ------------------------------------------------------------------------
\* Membership routes and the session-end trigger
\* ------------------------------------------------------------------------
\* add_members_to_workroom: a WorkroomMemberLink row, nothing else
AddMember(u) ==
    /\ UNCHANGED <<wsVars, bcast>>
    /\ u \notin members
    /\ members' = members \cup {u}
    /\ lastJob' = JobStep("add_member", "-", NoJob, << >>, FALSE)
    /\ runs' = << >>
    /\ UNCHANGED <<user_kpi_summary, leaderboards, tx_leaderboards,
                   workroom_kpi_summary, live_session, queue, exec, requests>>

\* remove_members_from_workroom: deletes the WorkroomMemberLink rows only
RemoveMember(u) ==
    /\ UNCHANGED <<wsVars, bcast>>
    /\ u \in members
    /\ members' = members \ {u}
    /\ lastJob' = JobStep("remove_member", "-", NoJob, << >>, FALSE)
    /\ runs' = << >>
    /\ UNCHANGED <<user_kpi_summary, leaderboards, tx_leaderboards,
                   workroom_kpi_summary, live_session, queue, exec, requests>>

\* end_live_session: refuses a session that is not active, else enqueues the
\* job.  Line 1113 assigns is_ending, which is no column of
\* WorkroomLiveSession: the commit writes nothing, the next request loads the
\* row in a session of its own, and no request reads is_ending.
EndSessionRequest(u, maxReq) ==
    /\ UNCHANGED <<wsVars, bcast>>
    /\ requests < maxReq
    /\ live_session.is_active
    /\ queue' = Append(queue, [workroom_id |-> "r1", session_id |-> "s1",
                                user_id |-> u, job_try |-> 0, defer_by |-> 0])
    /\ requests' = requests + 1
    /\ lastJob' = JobStep("request", "-", NoJob, << >>, FALSE)
    /\ UNCHANGED <<members, user_kpi_summary, leaderboards, tx_leaderboards,
                   workroom_kpi_summary, live_session, exec, runs>>

\* ------------------------------------------------------------------------
\* process_workroom_end_session and its three stages
\* ------------------------------------------------------------------------
RowsOf(tbl, u) == {i \in DOMAIN tbl : tbl[i].user_id = u}

\* the worker takes a job off the queue; `await session.begin()`
JobStart ==
    /\ UNCHANGED <<wsVars, bcast>>
    /\ exec.pc = "idle"
    /\ \E i \in DOMAIN queue :
        /\ exec' = [Idle EXCEPT !.pc = "summarize", !.job = queue[i], !.seen = members]
        /\ queue' = [k \in 1..(Len(queue) - 1) |-> IF k < i THEN queue[k] ELSE queue[k + 1]]
        /\ lastJob' = JobStep("start", "-", queue[i], << >>, FALSE)
    /\ tx_leaderboards' = leaderboards
    /\ UNCHANGED <<members, user_kpi_summary, leaderboards, workroom_kpi_summary,
                   live_session, requests, runs>>

\* line 278: the attempts are used up
Exhausted(job_try) == job_try > RETRY_LIMIT

\* variant of the retry: the try count is passed on as it is
RetrySameTry(job) ==
    [workroom_id |-> job.workroom_id, session_id |-> job.session_id,
     user_id |-> job.user_id, job_try |-> job.job_try, defer_by |-> RETRY_DEFER]
\* line 281: the job enqueued for the retry
RetryJob(job) ==
    [workroom_id |-> job.workroom_id, session_id |-> job.session_id,
     user_id |-> job.user_id, job_try |-> job.job_try + 1, defer_by |-> RETRY_DEFER]

\* the record of a finished execution: what it was given, the ranks it
\* computed in its transaction, and the tables as committed when it ended
RunInputs(e, stage) ==
    [actor |-> e.job.user_id, members |-> e.seen, alignment |-> e.alignment,
     fallback |-> e.fallback, stage |-> stage]
RunRecord(e, stage, ranked, lb, kpi) ==
    [inputs |-> RunInputs(e, stage), ranked |-> ranked, leaderboards |-> lb,
     kpi |-> kpi,
     repeat |-> runs # << >> /\ runs[1].inputs = RunInputs(e, stage)]
Remember(rec) == <<rec>>

\* variant of the rollback: the row is left marked as ended
SessionMarkedEnded(ls) == [is_active |-> FALSE, ended |-> TRUE]
\* session.rollback() on the live-session row: the row as committed
SessionAfterRollback(ls) == ls

\* variant of the order: the leaderboard stage is left out
StageSkipping(stage) == "aggregate"
\* lines 259-261: the three awaited calls, each begun when the one before it
\* has returned
StageAfter(stage) == IF stage = "summarize" THEN "rank" ELSE "aggregate"

\* lines 274-282: rollback, then give up or enqueue the retry and re-raise
JobFail(e, stage) ==
    /\ tx_leaderboards' = leaderboards
    /\ live_session' = SessionAfterRollback(live_session)
    /\ exec' = Idle
    /\ IF Exhausted(e.job.job_try)
       THEN /\ queue' = queue
            /\ lastJob' = JobStep("fail", stage, e.job, << >>, TRUE)
       ELSE /\ queue' = Append(queue, RetryJob(e.job))
            /\ lastJob' = JobStep("fail", stage, e.job, <<RetryJob(e.job)>>, FALSE)
    /\ runs' = Remember(RunRecord(e, stage, tx_leaderboards, leaderboards,
                                  workroom_kpi_summary))
    /\ UNCHANGED <<members, leaderboards, workroom_kpi_summary, requests>>

\* variant of the upsert: a row is added whether or not one exists
InsertSummary(tbl, u, a) == Append(tbl, [user_id |-> u, alignment |-> a])
\* generate_user_session_summary, lines 688-713: upsert by (user, room, session)
UpsertSummary(tbl, u, a) ==
    IF RowsOf(tbl, u) = {} THEN Append(tbl, [user_id |-> u, alignment |-> a])
    ELSE [i \in DOMAIN tbl |-> IF tbl[i].user_id = u
                               THEN [tbl[i] EXCEPT !.alignment = a] ELSE tbl[i]]

\* variant of the commit: the stage's write stays in the job's transaction
SummaryLeftPending(committed, written) == committed
\* line 741, db.commit(): the table as committed after the stage
SummaryCommit(committed, written) == written

\* Stage 1.  Raises when the session, user, room or analysis results are
\* missing, or when the upsert's scalar_one_or_none finds several rows.
Summarize ==
    /\ UNCHANGED <<wsVars, bcast>>
    /\ exec.pc = "summarize"
    /\ \E outcome \in Alignments \cup {-1} :
        IF outcome = -1 \/ Cardinality(RowsOf(user_kpi_summary, exec.job.user_id)) > 1
        THEN /\ JobFail(exec, "summarize")
             /\ UNCHANGED user_kpi_summary
        ELSE /\ user_kpi_summary' =
                   SummaryCommit(user_kpi_summary,
                                 UpsertSummary(user_kpi_summary, exec.job.user_id, outcome))
             /\ exec' = [exec EXCEPT !.pc = StageAfter("summarize"), !.alignment = outcome,
                                     !.done = @ \cup {"summarize"}]
             /\ lastJob' = JobStep("summarize", "summarize", exec.job, << >>, FALSE)
             /\ UNCHANGED <<members, leaderboards, tx_leaderboards,
                            workroom_kpi_summary, live_session, queue, requests, runs>>

\* update_workroom_leaderboard, lines 139-152: the latest summary's alignment
KpiScore(u) ==
    IF RowsOf(user_kpi_summary, u) = {} THEN 0
    ELSE user_kpi_summary[CHOOSE i \in RowsOf(user_kpi_summary, u) :
                              \A j \in RowsOf(user_kpi_summary, u) : j <= i].alignment

\* lines 130-263: one entry per member; a member whose processing raised
\* unexpectedly gets the fallback entry with the raw first_name
LeaderboardEntry(u, failed) ==
    IF failed
    THEN [user_id |-> u, username |-> FirstName(u), score |-> 0]
    ELSE [user_id |-> u,
          username |-> IF FirstName(u) = None THEN "Unnamed User" ELSE FirstName(u),
          score |-> IF KpiScore(u) + BaseScore(u) > 0 THEN KpiScore(u) + BaseScore(u) ELSE 0]

LeaderboardData(fallback) ==
    LET m == SeqOf(members)
    IN [i \in 1..Len(m) |-> LeaderboardEntry(m[i], m[i] \in fallback)]

\* line 266: the sort key (-score, username.lower())
Before(e, f) ==
    \/ e.score > f.score
    \/ e.score = f.score /\ LowerKey(e.username) < LowerKey(f.username)

\* .lower() on a first_name that is None raises
SortRaises(data) == \E i \in DOMAIN data : data[i].username = None

SortLeaderboard(data) ==
    [k \in 1..Len(data) |->
        data[CHOOSE i \in DOMAIN data :
                Cardinality({j \in DOMAIN data : Before(data[j], data[i])}) = k - 1]]

\* lines 269-305: update the member's row or add one; several rows for the
\* member make scalar_one_or_none raise, and the entry is skipped
SaveEntry(tbl, e, rank) ==
    IF Cardinality(RowsOf(tbl, e.user_id)) > 1 THEN tbl
    ELSE IF RowsOf(tbl, e.user_id) = {}
    THEN Append(tbl, [user_id |-> e.user_id, score |-> e.score, rank |-> rank])
    ELSE [i \in DOMAIN tbl |-> IF tbl[i].user_id = e.user_id
                               THEN [tbl[i] EXCEPT !.score = e.score, !.rank = rank]
                               ELSE tbl[i]]

RECURSIVE SaveFrom(_, _, _)
SaveFrom(tbl, sorted, k) ==
    IF k > Len(sorted) THEN tbl
    ELSE SaveFrom(SaveEntry(tbl, sorted[k], k), sorted, k + 1)

SaveLeaderboard(tbl, sorted) == SaveFrom(tbl, sorted, 1)

\* Stage 2.  Nothing is committed here.
Rank ==
    /\ UNCHANGED <<wsVars, bcast>>
    /\ exec.pc = "rank"
    /\ \E fallback \in SUBSET members :
        LET data == LeaderboardData(fallback)
        IN IF SortRaises(data)
           THEN /\ JobFail([exec EXCEPT !.fallback = fallback, !.seen = members], "rank")
                /\ UNCHANGED user_kpi_summary
           ELSE /\ tx_leaderboards' = SaveLeaderboard(tx_leaderboards, SortLeaderboard(data))
                /\ exec' = [exec EXCEPT !.pc = StageAfter("rank"), !.fallback = fallback,
                                        !.seen = members,
                                        !.done = @ \cup {"rank"}]
                /\ lastJob' = JobStep("rank", "rank", exec.job, << >>, FALSE)
                /\ UNCHANGED <<members, user_kpi_summary, leaderboards,
                               workroom_kpi_summary, live_session, queue, requests, runs>>

\* a call binds its positional arguments only if none is missing
CallBinds(nargs, nparams) == nargs = nparams

RECURSIVE SumAlignment(_, _)
SumAlignment(tbl, k) ==
    IF k > Len(tbl) THEN 0 ELSE tbl[k].alignment + SumAlignment(tbl, k + 1)

\* calculate_workroom_kpi_overview, lines 790-908: the average alignment of
\* the day's summaries, upserted by (room, date)
UpsertKpi(tbl, summaries) ==
    LET avg == SumAlignment(summaries, 1) \div Len(summaries)
    IN IF tbl = << >> THEN <<[average |-> avg]>>
       ELSE [i \in DOMAIN tbl |-> IF i = 1 THEN [average |-> avg] ELSE tbl[i]]

\* Stage 3 and the close of the session (lines 261-273).  The job passes two
\* positional arguments to a function of three: the call raises TypeError.
Aggregate ==
    /\ UNCHANGED <<wsVars, bcast>>
    /\ exec.pc = "aggregate"
    /\ IF ~CallBinds(AGGREGATE_CALL_ARGS, AGGREGATE_PARAMS)
          \/ RowsOf(user_kpi_summary, exec.job.user_id) = {}
       THEN /\ JobFail(exec, "aggregate")
            /\ UNCHANGED user_kpi_summary
       ELSE /\ workroom_kpi_summary' = UpsertKpi(workroom_kpi_summary, user_kpi_summary)
            /\ leaderboards' = tx_leaderboards
            /\ live_session' = [is_active |-> FALSE, ended |-> TRUE]
            /\ exec' = Idle
            /\ lastJob' = JobStep("success", "aggregate", exec.job, << >>, FALSE)
            /\ runs' = Remember(RunRecord(exec, "success", tx_leaderboards, tx_leaderboards,
                                          UpsertKpi(workroom_kpi_summary, user_kpi_summary)))
            /\ UNCHANGED <<members, user_kpi_summary, tx_leaderboards, queue, requests>>

NextJob ==
    \/ \E u \in Users : AddMember(u)
    \/ \E u \in Users : RemoveMember(u)
    \/ \E u \in Users : EndSessionRequest(u, MaxRequests)
    \/ JobStart
    \/ Summarize
    \/ Rank
    \/ Aggregate

\* repeated session-end requests against the worker, the membership fixed
NextTrigger ==
    \/ \E u \in Users : EndSessionRequest(u, MaxRequestsTrigger)
    \/ JobStart
    \/ Summarize
    \/ Rank
    \/ Aggregate

\* ------------------------------------------------------------------------
\* Specifications
\* ------------------------------------------------------------------------
NextManager ==
    \/ \E c \in TwoUsers : EndpointStart(c)
    \/ \E c \in TwoUsers : ConnectRegister(c)
    \/ \E c \in TwoUsers : ConnectVerify(c)
    \/ \E c \in TwoUsers : ConnectJoin(c)
    \/ \E c \in TwoUsers : ConnectPresenceUpdate(c)
    \/ \E c \in TwoUsers : Disconnect(c)
    \/ \E c \in TwoUsers : LoopDisconnect(c)
    \/ \E c \in TwoUsers, s \in Contents : HandleChat(c, s, MaxInbound)
    \/ \E c \in TwoUsers, m \in 1..MaxMsgs, s \in Contents : HandleEdit(c, m, s, MaxInbound)
    \/ \E c \in TwoUsers, m \in 1..MaxMsgs : HandleDelete(c, m, MaxInbound)
    \/ \E c \in TwoUsers : HandleTyping(c, MaxInbound)
    \/ \E c \in TwoUsers, m \in 1..MaxMsgs : HandleReadReceipt(c, m, MaxInbound)

\* one connection sending up to MaxInboundRate messages in a window
NextRate ==
    \/ EndpointStart(1)
    \/ ConnectRegister(1)
    \/ ConnectVerify(1)
    \/ ConnectJoin(1)
    \/ ConnectPresenceUpdate(1)
    \/ Disconnect(1)
    \/ LoopDisconnect(1)
    \/ HandleTyping(1, MaxInboundRate)
    \/ HandleRateLimited(1)
    \/ Tick

Init == InitManager /\ InitJob /\ InitBroadcast

\* two connections of one user beside a second user's: each sends at most
\* MaxInboundTabs messages of a content that passes the checks
NextTabs ==
    \/ \E c \in Conns : EndpointStart(c)
    \/ \E c \in Conns : ConnectRegister(c)
    \/ \E c \in Conns : ConnectVerify(c)
    \/ \E c \in Conns : ConnectJoin(c)
    \/ \E c \in Conns : ConnectPresenceUpdate(c)
    \/ \E c \in Conns : Disconnect(c)
    \/ \E c \in Conns : LoopDisconnect(c)
    \/ \E c \in Conns : HandleChat(c, OkContent, MaxInboundTabs)
    \/ \E c \in Conns, m \in 1..MaxMsgs : HandleEdit(c, m, OkContent, MaxInboundTabs)
    \/ \E c \in Conns, m \in 1..MaxMsgs : HandleDelete(c, m, MaxInboundTabs)

\* three users in one room, the broadcasts followed send by send
NextRoom ==
    \/ \E c \in ThreeUsers : EndpointStart(c)
    \/ \E c \in ThreeUsers : ConnectRegister(c)
    \/ \E c \in ThreeUsers : ConnectVerify(c)
    \/ \E c \in ThreeUsers : BroadcastCall(c)
    \/ \E c \in ThreeUsers : BroadcastAcquire(c)
    \/ \E c \in ThreeUsers : BroadcastSend(c)
    \/ \E c \in ThreeUsers : BroadcastEnd(c)
    \/ \E c \in ThreeUsers : ConnectPresenceUpdate(c)
    \/ \E c \in ThreeUsers : Disconnect(c)
    \/ \E c \in ThreeUsers : LoopDisconnect(c)

\* one user with a websocket to each of two rooms
NextRooms ==
    \/ \E c \in TwoRooms : EndpointStart(c)
    \/ \E c \in TwoRooms : ConnectRegister(c)
    \/ \E c \in TwoRooms : ConnectVerify(c)
    \/ \E c \in TwoRooms : ConnectJoin(c)
    \/ \E c \in TwoRooms : ConnectPresenceUpdate(c)
    \/ \E c \in TwoRooms : Disconnect(c)
    \/ \E c \in TwoRooms : LoopDisconnect(c)
    \/ \E c \in TwoRooms : HandleChat(c, OkContent, MaxInboundRooms)
    \/ \E c \in TwoRooms, m \in 1..MaxMsgs : HandleEdit(c, m, OkContent, MaxInboundRooms)
    \/ \E c \in TwoRooms, m \in 1..MaxMsgs : HandleDelete(c, m, MaxInboundRooms)

\* the websocket manager under two users' endpoint tasks
Spec == Init /\ [][NextManager]_vars
\* the rate limiter under one user's message stream
SpecRate == Init /\ [][NextRate]_vars
\* the websocket manager when a user opens a second connection
SpecTabs == Init /\ [][NextTabs]_vars
\* the finalization job, the trigger and the membership routes
SpecJob == Init /\ [][NextJob]_vars
\* the message store shared by two rooms
SpecRooms == Init /\ [][NextRooms]_vars
\* the broadcasts of a room of three users
SpecRoom == Init /\ [][NextRoom]_vars
\* the trigger under repeated session-end requests
SpecTrigger == Init /\ [][NextTrigger]_vars

\* the steps of an endpoint task that wait for no client: the event loop
\* resumes a task whose awaited call has finished
ServerStep(c) ==
    \/ ConnectRegister(c)
    \/ ConnectVerify(c)
    \/ ConnectJoin(c)
    \/ ConnectPresenceUpdate(c)
    \/ Disconnect(c)

\* the websocket manager with every ready endpoint task eventually resumed
SpecLive == Init /\ [][NextManager]_vars /\ \A c \in TwoUsers : WF_vars(ServerStep(c))

\* ------------------------------------------------------------------------
\* Properties
\* ------------------------------------------------------------------------

\* C1: in every reachable state, for every room and user, the presence map
\* holds an 'online' entry for (room, user) if and only if a connection is
\* registered for (room, user).
PresenceIffRegistered ==
    \A r \in Rooms, u \in Users :
        (presence_data[r][u] = "online") <=> (active_connections[r][u] # NoConn)

\* C2: with no window reset in between, exactly the first 30 inbound messages
\* of a user in a room are accepted (dispatched to a handler): the number
\* dispatched in a window never exceeds 30.
FirstThirtyAccepted ==
    \A u \in Users, r \in Rooms : dispatched[u][r] <= 30

\* an envelope of one of the error kinds, sent to a websocket of user u
ErrorReplyTo(out, u) ==
    /\ Len(out) = 1
    /\ out[1][2] \in {"error", "error_missing_field", "error_unexpected"}
    /\ ConnUser(out[1][1]) = u

\* C3: an edit_message or delete_message requested by a user who is not the
\* sender of the message produces an error reply to the requester only, no
\* broadcast, and leaves the stored message unchanged.
NonOwnerModifyRefused ==
    [][(/\ last'.typ \in {"edit_message", "delete_message"}
        /\ last'.mid <= Len(messages)
        /\ messages[last'.mid].sender_id # ConnUser(last'.conn))
       => (/\ messages' = messages
           /\ ErrorReplyTo(last'.out, ConnUser(last'.conn)))]_vars

\* C4: a chat_message whose content has 2001 characters is rejected: it is
\* not persisted.
Chat2001NotPersisted ==
    [][(last'.typ = "chat_message" /\ RawLen(last'.content) = 2001)
       => messages' = messages]_vars

\* C5: the session is marked ended (ended_at set, is_active false) only by
\* an execution in which Summarize, Rank and Aggregate have all completed;
\* an execution in which a stage fails leaves the session as it was.
EndedOnlyAfterAllStages ==
    [][/\ (live_session' # live_session
            => /\ lastJob'.op = "success"
               /\ exec.pc = "aggregate"
               /\ exec.done = {"summarize", "rank"})
       /\ (lastJob'.op = "fail"
            => /\ live_session' = live_session
               /\ live_session'.is_active
               /\ ~live_session'.ended)]_vars

\* C5 witness: an execution failed in its last stage and the session is
\* still active
FailedRunLeftSessionActive ==
    /\ lastJob.op = "fail"
    /\ lastJob.stage = "aggregate"
    /\ live_session.is_active
    /\ ~live_session.ended

\* C6: after the Rank stage has run, the leaderboard has exactly one entry
\* per current member, ordered by score descending, with ranks exactly 1..N.
LeaderboardMatchesMembers ==
    lastJob.op = "rank" =>
        LET t == tx_leaderboards
        IN /\ Len(t) = Cardinality(members)
           /\ {t[i].user_id : i \in DOMAIN t} = members
           /\ {t[i].rank : i \in DOMAIN t} = 1..Len(t)
           /\ \A i, j \in DOMAIN t : t[i].rank < t[j].rank => t[i].score >= t[j].score

\* C7: the try count of a finalization job never exceeds 3.
TryCountAtMostThree ==
    /\ \A i \in DOMAIN queue : queue[i].job_try <= 3
    /\ exec.job.job_try <= 3

\* C8: when Rank throws, the summary row that Summarize wrote in that
\* execution is still in the table and the session is not ended.
SummarySurvivesRankFailure ==
    [][(lastJob'.op = "fail" /\ lastJob'.stage = "rank")
       => (/\ \E i \in DOMAIN user_kpi_summary' :
                 /\ user_kpi_summary'[i].user_id = exec.job.user_id
                 /\ user_kpi_summary'[i].alignment = exec.alignment
           /\ live_session'.is_active
           /\ ~live_session'.ended)]_vars

\* C8 witness: Rank threw after Summarize had written the actor's row
RankFailedAfterSummary ==
    /\ lastJob.op = "fail"
    /\ lastJob.stage = "rank"
    /\ RowsOf(user_kpi_summary, lastJob.job.user_id) # {}

\* C9: a failed execution that is not reported permanently failed enqueues
\* exactly one job: same room, session and actor, deferred by 60 seconds,
\* try count one more than that of the failed execution.
FailureEnqueuesOneRetry ==
    [][(lastJob'.op = "fail" /\ ~lastJob'.permanent)
       => queue' = Append(queue,
                          [workroom_id |-> exec.job.workroom_id,
                           session_id |-> exec.job.session_id,
                           user_id |-> exec.job.user_id,
                           job_try |-> exec.job.job_try + 1,
                           defer_by |-> 60])]_vars

\* C9 witness: a retry failed in turn and enqueued the next retry
RetryOfRetryEnqueued ==
    /\ lastJob.op = "fail"
    /\ ~lastJob.permanent
    /\ lastJob.job.job_try = 1
    /\ Len(lastJob.enqueued) = 1
    /\ queue # << >>

NoDuplicateRows(summaries, lb, kpi) ==
    /\ \A u \in Users : Cardinality(RowsOf(summaries, u)) <= 1
    /\ \A u \in Users : Cardinality(RowsOf(lb, u)) <= 1
    /\ Len(kpi) <= 1

Envelopes(out) == {out[i] : i \in DOMAIN out}

\* the content passes every check of handle_chat_message
ValidChat(content) ==
    /\ StripLen(content) > 0
    /\ RawLen(content) <= 2000
    /\ content.mentions <= 10
    /\ ~content.badAttachment

\* C11: a valid chat message sent by a registered user and persisted is
\* delivered as a chat envelope to every connection registered in the room,
\* the sender's own included.
ChatDeliveredToRoom ==
    [][(/\ last'.op = "chat"
        /\ last'.mid # 0
        /\ ValidChat(last'.content)
        /\ active_connections[ConnRoom(last'.conn)][ConnUser(last'.conn)] # NoConn)
       => \A v \in Registered(ConnRoom(last'.conn)) :
             <<active_connections[ConnRoom(last'.conn)][v], "chat_message">>
                 \in Envelopes(last'.out)]_vars

\* C18: a chat message that fails validation (empty content, more than 10
\* mentions, or an attachment lacking name, type or url) is never persisted.
InvalidChatNotPersisted ==
    [][(/\ last'.typ = "chat_message"
        /\ \/ StripLen(last'.content) = 0
           \/ last'.content.mentions > 10
           \/ last'.content.badAttachment)
       => messages' = messages]_vars

\* envelope a is sent before envelope b in the step's output
Precedes(out, a, b) ==
    \E i, j \in DOMAIN out : i < j /\ out[i] = a /\ out[j] = b

\* the websockets of the other users of the room that are registered and open
OtherOpen(r, u) ==
    {active_connections[r][v] : v \in {w \in Registered(r) \ {u} :
        client_state[active_connections[r][w]] = "CONNECTED"}}

\* C12: when a registered user's disconnect runs, every other connected user
\* of the room receives a presence 'leave' envelope and after it a
\* presence_update.
LeaveAnnouncedToOthers ==
    [][(/\ last'.op \in {"disconnect_wait", "disconnect_done"}
        /\ active_connections[ConnRoom(last'.conn)][ConnUser(last'.conn)] = last'.conn)
       => \A ws \in OtherOpen(ConnRoom(last'.conn), ConnUser(last'.conn)) :
             Precedes(last'.out, <<ws, "presence_leave">>, <<ws, "presence_update">>)]_vars

\* C13: a connect is rejected for capacity only when the room's occupancy at
\* that moment has reached the configured maximum.
RejectedOnlyWhenFull ==
    [][last'.op = "connect_full"
       => Cardinality(Registered(ConnRoom(last'.conn))) >= MAX_CONNECTIONS_PER_ROOM]_vars

\* C14: when the membership check of connect fails, connect returns with
\* neither a registry entry nor a presence entry for the user.
DeniedLeavesNoEntry ==
    [][last'.op = "connect_denied"
       => /\ active_connections'[ConnRoom(last'.conn)][ConnUser(last'.conn)] = NoConn
          /\ presence_data'[ConnRoom(last'.conn)][ConnUser(last'.conn)] = "absent"]_vars

DisconnectCompletes ==
    \A c \in TwoUsers :
        (client_state[c] = "DISCONNECTED")
            ~> (/\ pc[c] = "closed"
                /\ active_connections[ConnRoom(c)][ConnUser(c)] = NoConn
                /\ presence_data[ConnRoom(c)][ConnUser(c)] = "absent")

\* C17: a member's connect, after the session_state it sent to the new
\* client, ends successfully with a presence_update delivered to that client.
NewClientGetsPresenceUpdate ==
    [][\A c \in TwoUsers :
         (pc[c] = "pupd" /\ pc'[c] # "pupd")
            => /\ pc'[c] = "loop"
               /\ \E i \in DOMAIN last'.out : last'.out[i] = <<c, "presence_update">>]_vars

\* C19: a read_receipt for a stored message is answered by a message_viewed
\* envelope to every registered, connected user of the room, and the
\* requester's connection stays in its read loop.
ReadReceiptBroadcast ==
    [][(last'.typ = "read_receipt" /\ last'.mid \in DOMAIN messages)
       => /\ pc'[last'.conn] = "loop"
          /\ \A ws \in Recipients(ConnRoom(last'.conn), {}) :
                <<ws, "message_viewed">> \in Envelopes(last'.out)]_vars

\* C20: over any sequence of session-end requests for one session, the
\* trigger enqueues at most one finalization job.
TriggerEnqueuesAtMostOnce == requests <= 1

\* the endpoint task of a websocket has ended, or its client has closed it
Closed(c) ==
    \/ client_state[c] = "DISCONNECTED"
    \/ pc[c] \in {"disc", "stuck", "closed"}

\* C21: when a user who has a registered connection in the room registers a
\* second one, the registry entry of (room, user) points at the new
\* connection and the old connection has been closed.
ReconnectSupersedes ==
    [][\A c \in Conns :
         (/\ last'.op = "connect_register"
          /\ last'.conn = c
          /\ active_connections[ConnRoom(c)][ConnUser(c)] \notin {NoConn, c})
         => /\ active_connections'[ConnRoom(c)][ConnUser(c)] = c
            /\ Closed(active_connections[ConnRoom(c)][ConnUser(c)])']_vars

\* C22: in a broadcast with an exclude list (the join event, the typing
\* indicator) a send that raises does not end the batch: when the batch
\* ends, no user of its list whose connection is still registered and open
\* is left without the envelope.
BroadcastSurvivesFailedSend ==
    [][(bcast.cur.seq # 0 /\ bcast'.cur.seq # bcast.cur.seq)
       => \A v \in bcast.cur.todo :
             ~(/\ active_connections[ConnRoom(bcast.cur.owner)][v] = bcast.cur.snap[v]
               /\ client_state[bcast.cur.snap[v]] = "CONNECTED")]_vars

\* C23: every websocket receives the broadcasts of its room in the order in
\* which the broadcast calls were issued, whatever the interleaving of the
\* calling tasks.
DeliveredInIssueOrder ==
    \A c \in Endpoints :
        \A i, j \in DOMAIN bcast.inbox[c] :
            i < j => bcast.inbox[c][i] < bcast.inbox[c][j]

\* a websocket has received two broadcasts, and a third call, issued while
\* the lock was held, has just been handed the lock
TwoReceivedThirdWaited ==
    /\ \E c \in ThreeUsers : Len(bcast.inbox[c]) >= 2
    /\ bcast.cur.seq = 3
    /\ pc[bcast.cur.owner] = "lock_wait"

\* C24: within one execution of the job a stage begins only when the stage
\* before it has returned: Summarize begins when the execution starts, Rank
\* only out of a finished Summarize, Aggregate only out of a finished Rank
\* that followed a finished Summarize; the execution is in one stage at a time.
StagesStrictlySequential ==
    [][/\ (exec'.pc = "summarize" /\ exec.pc # "summarize")
            => (exec.pc = "idle" /\ exec'.done = {})
       /\ (exec'.pc = "rank" /\ exec.pc # "rank")
            => (exec.pc = "summarize" /\ exec'.done = {"summarize"})
       /\ (exec'.pc = "aggregate" /\ exec.pc # "aggregate")
            => (exec.pc = "rank" /\ exec'.done = {"summarize", "rank"})]_vars

\* an execution has reached Aggregate with Summarize and Rank behind it
ReachedAggregateInOrder ==
    /\ exec.pc = "aggregate"
    /\ exec.done = {"summarize", "rank"}
    /\ lastJob.op = "rank"

\* C29: an execution whose Summarize and Rank have succeeded and whose
\* Aggregate meets no failing collaborator (the requester's summary row is
\* there) finishes by marking the session ended: is_active false, ended_at set.
FinalizationEndsSession ==
    [][(/\ exec.pc = "aggregate"
        /\ exec'.pc # "aggregate"
        /\ exec.done = {"summarize", "rank"}
        /\ RowsOf(user_kpi_summary, exec.job.user_id) # {})
       => (live_session'.ended /\ ~live_session'.is_active)]_vars

\* C26: after any sequence of chat_message and edit_message operations the
\* content of every stored message is at most 2000 characters long.
StoredContentAtMost2000 ==
    \A i \in DOMAIN messages : RawLen(messages[i].content) <= 2000

\* the task of websocket c is at a point where its next step needs
\* _connections_lock: entering connect, a broadcast of connect, disconnect,
\* a handler's lookup or broadcast
NeedsConnectionsLock(c) ==
    pc[c] \in {"connect", "join", "pupd", "disc", "h_blocked", "stuck"}

\* C27: no task waits forever for _connections_lock: a task that needs the
\* lock eventually gets past that point, whatever disconnects have started.
NoTaskWaitsForever ==
    \A c \in TwoUsers : NeedsConnectionsLock(c) ~> ~NeedsConnectionsLock(c)

\* C28: when the read loop of a user's older connection ends and disconnect
\* runs for it while the registry holds a newer connection of the same user
\* and room, the newer connection stays registered and the user's presence
\* stays online.
SupersededDisconnectKeepsNewer ==
    [][\A c \in Conns :
         (/\ last'.conn = c
          /\ last'.op \in {"disconnect_wait", "disconnect_done"}
          /\ pc[c] = "loop"
          /\ active_connections[ConnRoom(c)][ConnUser(c)] \notin {NoConn, c})
         => /\ active_connections'[ConnRoom(c)][ConnUser(c)]
                  = active_connections[ConnRoom(c)][ConnUser(c)]
            /\ (presence_data[ConnRoom(c)][ConnUser(c)] = "online"
                  => presence_data'[ConnRoom(c)][ConnUser(c)] = "online")]_vars

\* C30: an edit_message or delete_message received over a connection to
\* room R leaves every message stored in another room as it was.
ModifyStaysInRoom ==
    [][\A i \in DOMAIN messages :
         (/\ last'.typ \in {"edit_message", "delete_message"}
          /\ messages[i].workroom_id # ConnRoom(last'.conn))
         => (i \in DOMAIN messages' /\ messages'[i] = messages[i])]_vars

====
